---- MODULE Spec2Model ----
(***************************************************************************)
(* A model of the base-element micro-framework:                            *)
(*   - the reactive element runtime of src/lib/base-element.ts (accessor   *)
(*     installation, change batching, deferred flush, life-cycle hooks);   *)
(*   - the decorator registry of the decorators file (element, input,      *)
(*     query, getMeta, setMeta) over src/lib/element.metadata.ts.          *)
(* JavaScript values are tagged pairs <<type, payload>>; strings are       *)
(* sequences of one-character strings so that parseFloat and toString are  *)
(* computed, not assumed.                                                  *)
(***************************************************************************)
EXTENDS Integers, Sequences, FiniteSets, TLC

(* ------------------------------ bounds --------------------------------- *)

\* setter writes a user hook (onConnected, onDisconnected, onChanges) makes
MaxHookWrites == 1
\* timer ids the host event loop hands out before the model stops scheduling
MaxTimerId == 2

(* ------------------------- JavaScript values --------------------------- *)

Str(s) == <<"string", s>>
Num(n) == <<"number", n>>
Bool(b) == <<"boolean", b>>
Undefined == <<"undefined", 0>>
Null == <<"null", 0>>
NaN == <<"NaN", 0>>

\* the strings the model uses, as character sequences
MEDIUM == <<"m", "e", "d">>
LARGE == <<"l", "g">>
EMPTY == << >>
S42 == <<"4", "2">>
S7X == <<"7", "x">>
ABC == <<"a", "b", "c">>
TRUESTR == <<"t", "r", "u", "e">>
FALSESTR == <<"f", "a", "l", "s", "e">>

Digits == <<"0", "1", "2", "3", "4", "5", "6", "7", "8", "9">>

IsDigit(c) == \E i \in 1..10 : Digits[i] = c

DigitVal(c) == (CHOOSE i \in 1..10 : Digits[i] = c) - 1

\* value of the longest prefix of digits of s, continuing from acc
RECURSIVE DigitPrefix(_, _)
DigitPrefix(s, acc) ==
  IF s = << >> \/ ~IsDigit(Head(s)) THEN acc
  ELSE DigitPrefix(Tail(s), acc * 10 + DigitVal(Head(s)))

\* parseFloat over the alphabet of digits and letters: the leading digits,
\* NaN when the string does not start with a digit
parseFloat(s) ==
  IF s = << >> \/ ~IsDigit(Head(s)) THEN NaN ELSE Num(DigitPrefix(s, 0))

isNaN(v) == v = NaN

\* decimal digits of a natural number
RECURSIVE NatToString(_)
NatToString(n) ==
  IF n < 10 THEN <<Digits[n + 1]>>
  ELSE NatToString(n \div 10) \o <<Digits[(n % 10) + 1]>>

\* String(v) / v.toString() for the values that reach setAttribute
toString(v) ==
  CASE v[1] = "string" -> v[2]
    [] v[1] = "number" -> NatToString(v[2])
    [] v[1] = "boolean" -> IF v[2] THEN TRUESTR ELSE FALSESTR
    [] v[1] = "undefined" -> <<"u">>
    [] v[1] = "null" -> <<"n">>
    [] OTHER -> <<"N">>

\* ToBoolean
Truthy(v) ==
  CASE v[1] = "string" -> v[2] # << >>
    [] v[1] = "number" -> v[2] # 0
    [] v[1] = "boolean" -> v[2]
    [] OTHER -> FALSE

\* the === operator (NaN is never stored by the runtime)
StrictEq(a, b) == a = b

\* util.isVoid: the value is null or undefined
isVoid(v) == v = Null \/ v = Undefined

(* ------------------------------ Map ------------------------------------ *)
\* a JavaScript Map: entries [key, val] in insertion order

MapHas(m, k) == \E i \in 1..Len(m) : m[i].key = k

MapIndex(m, k) == CHOOSE i \in 1..Len(m) : m[i].key = k

MapGet(m, k) == m[MapIndex(m, k)].val

MapSet(m, k, v) ==
  IF MapHas(m, k)
  THEN [m EXCEPT ![MapIndex(m, k)] = [key |-> k, val |-> v]]
  ELSE Append(m, [key |-> k, val |-> v])

MapDelete(m, k) ==
  IF MapHas(m, k)
  THEN SubSeq(m, 1, MapIndex(m, k) - 1) \o SubSeq(m, MapIndex(m, k) + 1, Len(m))
  ELSE m

MapKeys(m) == {m[i].key : i \in 1..Len(m)}

(* --------------------------- metadata ---------------------------------- *)

STRING_T == "string"
NUMBER_T == "number"
BOOLEAN_T == "boolean"

AttributeValueDataType == {STRING_T, NUMBER_T, BOOLEAN_T}

Props == {"size", "type", "count", "open"}

Decl(p, a, t) == [property |-> p, attribute |-> a, dataType |-> t]

\* the component classes an element is created from: the template and the
\* input declarations their decorators registered
Classes ==
  { [tpl |-> TRUE, inputs |-> <<Decl("size", TRUE, STRING_T)>>],
    [tpl |-> TRUE, inputs |-> <<Decl("type", FALSE, STRING_T),
                                Decl("count", TRUE, NUMBER_T)>>],
    [tpl |-> FALSE, inputs |-> <<Decl("open", TRUE, BOOLEAN_T)>>] }

\* the field initializers of those classes
Defaults ==
  [p \in Props |->
     CASE p = "size" -> Str(MEDIUM)
       [] p = "type" -> Str(ABC)
       [] p = "count" -> Num(0)
       [] p = "open" -> Bool(FALSE)]

\* the values of an attribute in the markup that creates the element
AttrValues(p) ==
  CASE p = "size" -> {Null, Str(LARGE)}
    [] p = "type" -> {Null}
    [] p = "count" -> {Null, Str(S42), Str(S7X), Str(ABC)}
    [] p = "open" -> {Null, Str(EMPTY), Str(TRUESTR), Str(FALSESTR)}

\* the values callers and hooks assign to a property
WriteValues(p) ==
  CASE p = "size" -> {Str(MEDIUM), Str(LARGE), Str(EMPTY)}
    [] p = "type" -> {Str(ABC), Str(LARGE)}
    [] p = "count" -> {Num(0), Num(42)}
    [] p = "open" -> {Bool(TRUE), Bool(FALSE)}

\* the values the hooks of these classes assign to a property (the hooks of
\* the two-input class assign type only)
HookValues(p) ==
  CASE p = "size" -> {Str(LARGE)}
    [] p = "type" -> {Str(LARGE)}
    [] p = "count" -> {}
    [] p = "open" -> {Bool(TRUE)}

(* ------------------------------ state ---------------------------------- *)

VARIABLES
  metadata,     \* BaseElement._metadata: the class record read in the constructor
  initialized,  \* BaseElement._initialized
  rendered,     \* BaseElement._rendered
  changes,      \* BaseElement._changes: Map property -> {oldValue, newValue}
  props,        \* BaseElement._props: Map property -> value
  updateTimer,  \* BaseElement._updateTimer: 0 (null) or a timer id
  field,        \* own data properties of the instance (before accessors)
  installed,    \* properties whose reactive accessor is defined
  attrs,        \* DOM attributes of the element: Null when absent
  childCount,   \* template clones appended to the element
  attached,     \* host: the element is in the document
  timers,       \* host: ids of the pending setTimeout tasks
  nextTimer,    \* host: the id the next setTimeout returns
  last,         \* history: the handler that ran last
  trace,        \* history: the steps and hook calls of that handler
  winPre,       \* history: property values when the batching window opened
  winProps,     \* history: properties the window's external setter calls wrote
  winSame,      \* history: each of those calls wrote the value then held
  winFinal,     \* history: property values after those calls, by replay
  winAfter,     \* history: the handler the window opened after
  meta,         \* registry: class -> metadata object reference (0: none)
  heap,         \* registry: the metadata objects
  defined,      \* registry: customElements, names already defined
  thrown        \* registry: the last decorator call threw

elemVars == <<metadata, initialized, rendered, changes, props, updateTimer,
              field, installed, attrs, childCount, attached, timers,
              nextTimer, last, trace, winPre, winProps, winSame, winFinal,
              winAfter>>

regVars == <<meta, heap, defined, thrown>>

vars == <<elemVars, regVars>>

NoTimer == 0

(* ------------------- the element as a record --------------------------- *)

\* the element and its host, as the record the methods below transform
Cur ==
  [metadata |-> metadata, initialized |-> initialized, rendered |-> rendered,
   changes |-> changes, props |-> props, updateTimer |-> updateTimer,
   field |-> field, installed |-> installed, attrs |-> attrs,
   childCount |-> childCount, timers |-> timers, nextTimer |-> nextTimer,
   trace |-> << >>]

Event(s, name, p, v) ==
  [ev |-> name, prop |-> p, value |-> v, batch |-> s.changes, store |-> s.props,
   attrs |-> s.attrs]

Log(s, name) == [s EXCEPT !.trace = Append(@, Event(s, name, "", Undefined))]

LogSet(s, p, v) == [s EXCEPT !.trace = Append(@, Event(s, "set", p, v))]

\* this[prop]: the accessor's getter once installed, the data property before
Get(s, p) ==
  IF p \in s.installed
  THEN IF MapHas(s.props, p) THEN MapGet(s.props, p) ELSE Undefined
  ELSE s.field[p]

getAttr(s, name) == s.attrs[name]

removeAttr(s, name) == [s EXCEPT !.attrs[name] = Null]

setAttr(s, key, value) ==
  IF isVoid(value) THEN removeAttr(s, key)
  ELSE [s EXCEPT !.attrs[key] = Str(toString(value))]

\* pushChange recording the incoming value as the old value
pushChangeOldIsNew(s, prop, value) ==
  IF ~MapHas(s.changes, prop)
  THEN [s EXCEPT !.changes =
          MapSet(@, prop, [oldValue |-> value, newValue |-> value])]
  ELSE LET e == MapGet(s.changes, prop) IN
       IF StrictEq(e.oldValue, e.newValue) /\ s.initialized
       THEN [s EXCEPT !.changes = MapDelete(@, prop)]
       ELSE [s EXCEPT !.changes =
               MapSet(@, prop, [oldValue |-> e.oldValue, newValue |-> value])]

pushChange(s, prop, value) ==
  IF ~MapHas(s.changes, prop)
  THEN [s EXCEPT !.changes =
          MapSet(@, prop, [oldValue |-> Get(s, prop), newValue |-> value])]
  ELSE LET e == MapGet(s.changes, prop) IN
       IF StrictEq(e.oldValue, e.newValue) /\ s.initialized
       THEN [s EXCEPT !.changes = MapDelete(@, prop)]
       ELSE [s EXCEPT !.changes =
               MapSet(@, prop, [oldValue |-> e.oldValue, newValue |-> value])]

\* triggerUpdate without the early return on a pending timer
triggerUpdateNoGuard(s) ==
  [s EXCEPT !.updateTimer = s.nextTimer,
            !.timers = @ \cup {s.nextTimer},
            !.nextTimer = @ + 1]

triggerUpdate(s) ==
  IF s.updateTimer # NoTimer THEN s
  ELSE [s EXCEPT !.updateTimer = s.nextTimer,
                 !.timers = @ \cup {s.nextTimer},
                 !.nextTimer = @ + 1]

\* the setter writing the attribute for every value, never removing it
setterNoRemove(s, d, value) ==
  LET s1 == IF d.attribute
            THEN [s EXCEPT !.attrs[d.property] = Str(toString(value))]
            ELSE s
      s2 == pushChange(s1, d.property, value)
      s3 == [s2 EXCEPT !.props = MapSet(@, d.property, value)]
  IN IF s3.initialized THEN triggerUpdate(s3) ELSE s3

\* the setter recording the change without updating the value store
setterNoStore(s, d, value) ==
  LET s1 == IF d.attribute
            THEN IF Truthy(value)
                 THEN setAttr(s, d.property,
                              IF ~isVoid(value) THEN Str(toString(value)) ELSE value)
                 ELSE removeAttr(s, d.property)
            ELSE s
      s2 == pushChange(s1, d.property, value)
  IN IF s2.initialized THEN triggerUpdate(s2) ELSE s2

\* the setter _applyInputs defines for declaration d
setter(s, d, value) ==
  LET s1 == IF d.attribute
            THEN IF Truthy(value)
                 THEN setAttr(s, d.property,
                              IF ~isVoid(value) THEN Str(toString(value)) ELSE value)
                 ELSE removeAttr(s, d.property)
            ELSE s
      s2 == pushChange(s1, d.property, value)
      s3 == [s2 EXCEPT !.props = MapSet(@, d.property, value)]
  IN IF s3.initialized THEN triggerUpdate(s3) ELSE s3

\* applyInput keeping the attribute string of a number input unparsed
applyInputNoParse(s, d) ==
  LET attrValue0 == getAttr(s, d.property)
      attrValue ==
        IF d.attribute /\ attrValue0 # Null
        THEN IF d.dataType = BOOLEAN_T
             THEN Bool(attrValue0 = Str(TRUESTR) \/ attrValue0 = Str(EMPTY))
             ELSE attrValue0
        ELSE attrValue0
      value == IF d.attribute /\ attrValue0 # Null THEN attrValue
               ELSE Get(s, d.property)
      s1 == IF d.attribute /\ ~isVoid(value) /\ ~StrictEq(value, attrValue)
            THEN setAttr(s, d.property, value)
            ELSE s
      s2 == pushChange(s1, d.property, value)
      s3 == [s2 EXCEPT !.props = MapSet(@, d.property, value)]
  IN [s3 EXCEPT !.installed = @ \cup {d.property}]

\* one iteration of the forEach of _applyInputs
applyInput(s, d) ==
  LET attrValue0 == getAttr(s, d.property)
      attrValue ==
        IF d.attribute /\ attrValue0 # Null
        THEN IF d.dataType = NUMBER_T /\ ~isNaN(parseFloat(attrValue0[2]))
             THEN parseFloat(attrValue0[2])
             ELSE IF d.dataType = BOOLEAN_T
                  THEN Bool(attrValue0 = Str(TRUESTR) \/ attrValue0 = Str(EMPTY))
                  ELSE attrValue0
        ELSE attrValue0
      value == IF d.attribute /\ attrValue0 # Null THEN attrValue
               ELSE Get(s, d.property)
      s1 == IF d.attribute /\ ~isVoid(value) /\ ~StrictEq(value, attrValue)
            THEN setAttr(s, d.property, value)
            ELSE s
      s2 == pushChange(s1, d.property, value)
      s3 == [s2 EXCEPT !.props = MapSet(@, d.property, value)]
  IN [s3 EXCEPT !.installed = @ \cup {d.property}]

RECURSIVE applyInputsFrom(_, _)
applyInputsFrom(s, ds) ==
  IF ds = << >> THEN s
  ELSE applyInputsFrom(applyInput(s, Head(ds)), Tail(ds))

applyInputs(s) == Log(applyInputsFrom(s, s.metadata.inputs), "applyInputs")

applyAccessors(s) == Log(s, "applyAccessors")

render(s) ==
  Log(IF ~s.metadata.tpl THEN s ELSE [s EXCEPT !.childCount = @ + 1], "render")

\* the declaration whose setter an assignment to property p runs
DeclOf(s, p) ==
  LET ds == s.metadata.inputs
  IN ds[CHOOSE i \in 1..Len(ds) : ds[i].property = p]

\* a user hook body: the assignments ws = <<[prop, value], ...>> in order
RECURSIVE runHook(_, _)
runHook(s, ws) ==
  IF ws = << >> THEN s
  ELSE LET w == Head(ws)
       IN runHook(setter(LogSet(s, w.prop, w.value), DeclOf(s, w.prop), w.value),
                  Tail(ws))

onConnected(s, ws) == runHook(Log(s, "onConnected"), ws)

onDisconnected(s, ws) == runHook(Log(s, "onDisconnected"), ws)

onChanges(s, ws) == runHook(Log(s, "onChanges"), ws)

\* refresh forgetting the handle without clearTimeout
refreshNoClearTimeout(s, ws) ==
  LET s1 == onChanges(s, ws)
      s2 == [s1 EXCEPT !.changes = << >>]
  IN [s2 EXCEPT !.updateTimer = NoTimer]

\* refresh clearing the batch before it calls the hook
refreshClearFirst(s, ws) ==
  LET s1 == [s EXCEPT !.changes = << >>]
      s2 == onChanges(s1, ws)
      s3 == IF s2.updateTimer # NoTimer
            THEN [s2 EXCEPT !.timers = @ \ {s2.updateTimer}]
            ELSE s2
  IN [s3 EXCEPT !.updateTimer = NoTimer]

refresh(s, ws) ==
  LET s1 == onChanges(s, ws)
      s2 == [s1 EXCEPT !.changes = << >>]
      s3 == IF s2.updateTimer # NoTimer
            THEN [s2 EXCEPT !.timers = @ \ {s2.updateTimer}]
            ELSE s2
  IN [s3 EXCEPT !.updateTimer = NoTimer]

\* connectedCallback rendering on every attachment
connectedCallbackRerender(s, wsConnected, wsChanges) ==
  LET s1 == [render(s) EXCEPT !.rendered = TRUE]
      s2 == IF ~s1.initialized
            THEN [applyInputs(applyAccessors(s1)) EXCEPT !.initialized = TRUE]
            ELSE s1
      s3 == onConnected(s2, wsConnected)
  IN refresh(s3, wsChanges)

\* connectedCallback installing the accessors on every attachment
connectedCallbackReinstall(s, wsConnected, wsChanges) ==
  LET s1 == IF ~s.rendered THEN [render(s) EXCEPT !.rendered = TRUE] ELSE s
      s2 == [applyInputs(applyAccessors(
               [s1 EXCEPT !.initialized = FALSE, !.installed = {}]))
               EXCEPT !.initialized = TRUE]
      s3 == onConnected(s2, wsConnected)
  IN refresh(s3, wsChanges)

connectedCallback(s, wsConnected, wsChanges) ==
  LET s1 == IF ~s.rendered THEN [render(s) EXCEPT !.rendered = TRUE] ELSE s
      s2 == IF ~s1.initialized
            THEN [applyInputs(applyAccessors(s1)) EXCEPT !.initialized = TRUE]
            ELSE s1
      s3 == onConnected(s2, wsConnected)
  IN refresh(s3, wsChanges)

\* disconnectedCallback cancelling the pending flush
disconnectedCallbackCancels(s, ws) ==
  LET s1 == onDisconnected(s, ws)
  IN [s1 EXCEPT !.timers = @ \ {s1.updateTimer}, !.updateTimer = NoTimer]

disconnectedCallback(s, ws) == onDisconnected(s, ws)

(* ------------------------ decorator registry --------------------------- *)

\* input declarations one metadata object may hold before the model stops
MaxDecls == 2

\* the classes being decorated: Derived extends Base
RegClasses == {"Base", "Derived"}

Parent(c) == IF c = "Derived" THEN "Base" ELSE ""

RegProps == {"size", "type"}

QueryProps == {"spanEl"}

\* the (attribute, dataType) arguments the input decorator is applied with
DeclKinds == {<<FALSE, STRING_T>>, <<TRUE, NUMBER_T>>}

Selectors == {"span", "div"}

ElementNames == {"my-a", "my-b"}

Templates == {"<span>"}

NoMeta == 0

\* new ElementMetadata()
NewElementMetadata == [name |-> "", tpl |-> "", accessors |-> << >>, inputs |-> << >>]

\* target[ELEMENT_META_KEY]: the own static property, else the one inherited
\* from the class it extends, else undefined
RECURSIVE MetaKey(_, _)
MetaKey(m, target) ==
  IF target = "" THEN NoMeta
  ELSE IF m[target] # NoMeta THEN m[target]
  ELSE MetaKey(m, Parent(target))

\* getMeta: the reference and the heap that holds the object it returns
getMeta(target) ==
  IF MetaKey(meta, target) # NoMeta
  THEN [ref |-> MetaKey(meta, target), heap |-> heap]
  ELSE [ref |-> Len(heap) + 1, heap |-> Append(heap, NewElementMetadata)]

\* Set.prototype.has: SameValueZero of the argument against each element;
\* the elements of inputs are the objects the decorator added
SetHas(set, v) == \E i \in 1..Len(set) : set[i].self = v

\* inputs.add({ property, attribute, dataType }): a new object each call
SetAddDecl(set, ref, property, attribute, dataType) ==
  Append(set, [self |-> <<"object", <<ref, Len(set) + 1>> >>,
               property |-> property, attribute |-> attribute,
               dataType |-> dataType])

\* setMeta(target, meta) after the call mutated the object in place
setMeta(target, ref, h) ==
  /\ meta' = [meta EXCEPT ![target] = ref]
  /\ heap' = h

Throw == thrown' = TRUE /\ UNCHANGED <<meta, heap, defined>>

\* the property decorator input(attribute, dataType) applied to target.property
input(target, property, attribute, dataType) ==
  LET g == getMeta(target)
      inputs == g.heap[g.ref].inputs
  IN /\ Len(inputs) < MaxDecls
     /\ IF SetHas(inputs, <<"string", property>>)
        THEN Throw
        ELSE /\ setMeta(target, g.ref,
                        [g.heap EXCEPT ![g.ref].inputs =
                           SetAddDecl(@, g.ref, property, attribute, dataType)])
             /\ thrown' = FALSE
             /\ UNCHANGED defined

\* query without the test for an existing binding
queryOverwrite(target, property, selector) ==
  LET g == getMeta(target)
  IN /\ setMeta(target, g.ref,
                [g.heap EXCEPT ![g.ref].accessors =
                   MapSet(@, property, [selector |-> selector])])
     /\ thrown' = FALSE
     /\ UNCHANGED defined

\* the property decorator query(selector) applied to target.property
query(target, property, selector) ==
  LET g == getMeta(target)
      accessors == g.heap[g.ref].accessors
  IN IF MapHas(accessors, property)
     THEN Throw
     ELSE /\ setMeta(target, g.ref,
                     [g.heap EXCEPT ![g.ref].accessors =
                        MapSet(@, property, [selector |-> selector])])
          /\ thrown' = FALSE
          /\ UNCHANGED defined

\* the class decorator element(name, tpl) applied to target;
\* customElements.define throws when the class is already defined
element(target, name, tpl) ==
  IF MapHas(defined, name) \/ \E i \in 1..Len(defined) : defined[i].val = target
  THEN Throw
  ELSE LET g == getMeta(target)
       IN /\ defined' = MapSet(defined, name, target)
          /\ setMeta(target, g.ref,
                     [g.heap EXCEPT ![g.ref].name = name, ![g.ref].tpl = tpl])
          /\ thrown' = FALSE

(* ------------------------------ actions -------------------------------- *)

Declared(m) == {m.inputs[i].property : i \in 1..Len(m.inputs)}

AttributeBacked(m) ==
  {m.inputs[i].property : i \in {j \in 1..Len(m.inputs) : m.inputs[j].attribute}}

\* the assignments a caller or a hook can make
Writes == UNION {{[prop |-> p, value |-> v] : v \in WriteValues(p)} : p \in Props}

\* the bodies of a user hook: up to MaxHookWrites assignments to the inputs
HookWrites ==
  UNION {{[prop |-> p, value |-> v] : v \in HookValues(p)} : p \in Declared(metadata)}

HookBodies == UNION {[1..n -> HookWrites] : n \in 0..MaxHookWrites}

\* the values the properties read
Values(s) == [p \in Props |-> Get(s, p)]

Commit(s) ==
  /\ initialized' = s.initialized
  /\ rendered' = s.rendered
  /\ changes' = s.changes
  /\ props' = s.props
  /\ updateTimer' = s.updateTimer
  /\ field' = s.field
  /\ installed' = s.installed
  /\ attrs' = s.attrs
  /\ childCount' = s.childCount
  /\ timers' = s.timers
  /\ nextTimer' = s.nextTimer
  /\ trace' = s.trace
  /\ UNCHANGED metadata

RegInit ==
  /\ meta = [c \in RegClasses |-> NoMeta]
  /\ heap = << >>
  /\ defined = << >>
  /\ thrown = FALSE

\* the element after its constructor, created from markup or by a script
Init ==
  /\ metadata \in Classes
  /\ initialized = FALSE
  /\ rendered = FALSE
  /\ changes = << >>
  /\ props = << >>
  /\ updateTimer = NoTimer
  /\ field = [p \in Props |-> IF p \in Declared(metadata) THEN Defaults[p] ELSE Undefined]
  /\ installed = {}
  /\ attrs \in {a \in [Props -> UNION {AttrValues(p) : p \in Props}] :
                  \A p \in Props : /\ a[p] \in AttrValues(p)
                                   /\ p \notin AttributeBacked(metadata) => a[p] = Null}
  /\ childCount = 0
  /\ attached = FALSE
  /\ timers = {}
  /\ nextTimer = 1
  /\ last = "new"
  /\ trace = << >>
  /\ winPre = field
  /\ winProps = {}
  /\ winSame = TRUE
  /\ winFinal = field
  /\ winAfter = "new"
  /\ RegInit

\* an assignment to a declared property before the accessors exist
Assign(p, v) ==
  /\ ~initialized
  /\ p \in Declared(metadata)
  /\ field[p] # v
  /\ Commit([Cur EXCEPT !.field[p] = v])
  /\ last' = "assign"
  /\ winPre' = field'
  /\ winFinal' = field'
  /\ UNCHANGED <<attached, winProps, winSame, winAfter>>

\* a caller assigns a reactive property: the setter runs
Set(p, v) ==
  /\ p \in installed
  /\ nextTimer <= MaxTimerId
  /\ Commit(setter(Cur, DeclOf(Cur, p), v))
  /\ last' = "set"
  /\ winPre' = IF last = "set" THEN winPre ELSE Values(Cur)
  /\ winProps' = (IF last = "set" THEN winProps ELSE {}) \cup {p}
  /\ winSame' = ((last = "set" => winSame)
                   /\ v = (IF last = "set" THEN winFinal ELSE Values(Cur))[p])
  /\ winFinal' = [(IF last = "set" THEN winFinal ELSE Values(Cur)) EXCEPT ![p] = v]
  /\ winAfter' = IF last = "set" THEN winAfter ELSE last
  /\ UNCHANGED attached

\* the host runs the setTimeout task id: () => this.refresh()
Fire(id, ws) ==
  /\ id \in timers
  /\ LET s == refresh([Cur EXCEPT !.timers = @ \ {id}], ws)
     IN /\ s.nextTimer <= MaxTimerId + 1
        /\ Commit(s)
  /\ last' = "fire"
  /\ UNCHANGED <<attached, winPre, winProps, winSame, winFinal, winAfter>>

\* the host attaches the element to the document
Connect(wsConnected, wsChanges) ==
  /\ ~attached
  /\ LET s == connectedCallback(Cur, wsConnected, wsChanges)
     IN /\ s.nextTimer <= MaxTimerId + 1
        /\ Commit(s)
        /\ winPre' = Values(s)
        /\ winFinal' = Values(s)
  /\ attached' = TRUE
  /\ last' = "connect"
  /\ winProps' = {}
  /\ winSame' = TRUE
  /\ winAfter' = "connect"

\* the host detaches the element from the document
Disconnect(ws) ==
  /\ attached
  /\ LET s == disconnectedCallback(Cur, ws)
     IN /\ s.nextTimer <= MaxTimerId + 1
        /\ Commit(s)
        /\ winPre' = Values(s)
        /\ winFinal' = Values(s)
  /\ attached' = FALSE
  /\ last' = "disconnect"
  /\ winProps' = {}
  /\ winSame' = TRUE
  /\ winAfter' = "disconnect"

Next ==
  \/ \E w \in Writes : Assign(w.prop, w.value) /\ UNCHANGED regVars
  \/ \E w \in Writes : Set(w.prop, w.value) /\ UNCHANGED regVars
  \/ \E id \in timers, ws \in HookBodies : Fire(id, ws) /\ UNCHANGED regVars
  \/ \E wc \in HookBodies, wg \in HookBodies : Connect(wc, wg) /\ UNCHANGED regVars
  \/ \E ws \in HookBodies : Disconnect(ws) /\ UNCHANGED regVars

Spec == Init /\ [][Next]_vars

RegInitOnly ==
  /\ Init
  /\ metadata = [tpl |-> TRUE, inputs |-> <<Decl("size", TRUE, STRING_T)>>]
  /\ \A p \in Props : attrs[p] = Null

RegNext ==
  \/ \E c \in RegClasses, p \in RegProps, k \in DeclKinds :
       input(c, p, k[1], k[2]) /\ UNCHANGED elemVars
  \/ \E c \in RegClasses, p \in QueryProps, sel \in Selectors :
       query(c, p, sel) /\ UNCHANGED elemVars
  \/ \E c \in RegClasses, n \in ElementNames, t \in Templates :
       element(c, n, t) /\ UNCHANGED elemVars

RegSpec == RegInitOnly /\ [][RegNext]_vars

TypeOK ==
  /\ initialized \in BOOLEAN
  /\ timers \subseteq 1..(MaxTimerId + 1)

(* ------------------------- reading the history -------------------------- *)

\* the steps and hook calls of a trace, without the assignments hooks made
Steps(tr) == SelectSeq(tr, LAMBDA e : e.ev # "set")

StepNames(tr) == [i \in 1..Len(Steps(tr)) |-> Steps(tr)[i].ev]

OnChangesCalls(tr) == {i \in 1..Len(tr) : tr[i].ev = "onChanges"}

\* the batch the onChanges hook received
Delivered(tr) == tr[CHOOSE i \in OnChangesCalls(tr) : TRUE].batch

Has(tr, name) == \E i \in 1..Len(tr) : tr[i].ev = name

EventOf(tr, name) == tr[CHOOSE i \in 1..Len(tr) : tr[i].ev = name]

\* the assignments a hook made before onChanges was called
SetsBeforeOnChanges(tr) ==
  {i \in 1..Len(tr) : tr[i].ev = "set" /\ \A j \in OnChangesCalls(tr) : i < j}

\* the last value the hooks of a trace assigned to p
HookWrote(tr, p) == {i \in 1..Len(tr) : tr[i].ev = "set" /\ tr[i].prop = p}

LastOf(S) == CHOOSE i \in S : \A j \in S : j <= i

\* the window opened on an idle instance: right after a flush
WindowFromIdle == winAfter \in {"connect", "fire"}

(* ------------------------------ claims ---------------------------------- *)

\* C1: on an initialized instance, one or more setter writes with no flush
\* and no life-cycle callback between them leave exactly one deferred flush
\* pending and call no hook; when that flush fires onChanges is invoked
\* exactly once and no flush stays scheduled.
C1_OneFlushPerTurn ==
  /\ last = "set" =>
       /\ initialized
       /\ Cardinality(timers) = 1
       /\ timers = {updateTimer}
       /\ trace = << >>
  /\ (last = "fire" /\ winProps # {}) =>
       /\ Cardinality(OnChangesCalls(trace)) = 1
       /\ timers = {}
       /\ updateTimer = NoTimer

\* two different properties written in one window, then the flush fired
C1_Witness ==
  /\ last = "fire"
  /\ Cardinality(winProps) >= 2
  /\ Cardinality(OnChangesCalls(trace)) = 1

\* C2: the batch delivered for a window of setter writes holds exactly the
\* properties whose final value differs from their value before the window.
C2_BatchIsNetChange ==
  (last = "fire" /\ winProps # {} /\ WindowFromIdle) =>
    \A p \in Declared(metadata) :
      MapHas(Delivered(trace), p) <=> winFinal[p] # winPre[p]

\* C3: after the first-attachment flush, setter calls that write the value
\* the property already holds cause no further onChanges invocation.
C3_SameValueWriteNoOnChanges ==
  (/\ last = "fire"
   /\ WindowFromIdle
   /\ winProps # {}
   /\ winSame) =>
    OnChangesCalls(trace) = {}

\* C4: the host never holds more than one deferred-flush task of the
\* instance, the pending one is the handle the instance remembers, and a
\* setter write made while a task is pending schedules no other task.
C4_AtMostOneTask ==
  /\ [](Cardinality(timers) <= 1 /\ (timers # {} => timers = {updateTimer}))
  /\ [][(last' = "set" /\ timers # {}) => timers' = timers]_vars

\* a second write while the task of the first is pending, on a detached element
C4_Witness ==
  /\ last = "set"
  /\ Cardinality(winProps) >= 2
  /\ Cardinality(timers) = 1
  /\ ~attached

\* C5: every flush, fired by the task or forced by an attachment, calls
\* onChanges once with the batch pending at that moment, and returns with
\* an empty batch, no remembered handle and no task outstanding, also when
\* the hook assigned reactive properties.
C5_FlushLeavesIdle ==
  /\ [](last \in {"fire", "connect"} =>
          /\ changes = << >>
          /\ timers = {}
          /\ updateTimer = NoTimer
          /\ Cardinality(OnChangesCalls(trace)) = 1)
  /\ [][(\/ last' = "fire"
         \/ (last' = "connect" /\ initialized /\ SetsBeforeOnChanges(trace') = {}))
        => Delivered(trace') = changes]_vars

\* a fired flush whose onChanges hook assigned a property
C5_Witness ==
  /\ last = "fire"
  /\ \E i \in 1..Len(trace) : trace[i].ev = "set"
  /\ Delivered(trace) # << >>
  /\ changes = << >>

\* C6: the first attachment renders, installs the accessors, calls
\* onConnected and then flushes once, and the batch of that flush has an
\* entry for every declared reactive property, whatever onConnected did.
C6_FirstAttachDeliversAll ==
  (last = "connect" /\ Has(trace, "applyInputs")) =>
    /\ StepNames(trace) =
         <<"render", "applyAccessors", "applyInputs", "onConnected", "onChanges">>
    /\ Declared(metadata) \subseteq MapKeys(Delivered(trace))

\* C7 as stated: an attachment after the first calls the onConnected hook
\* only, so it does not call onChanges, render or install.
C7_ReattachOnlyOnConnected ==
  (last = "connect" /\ ~Has(trace, "applyInputs")) =>
    StepNames(trace) = <<"onConnected">>

\* C7 amended: an attachment after the first renders nothing and installs
\* nothing; it calls onConnected and then, by the forced flush, onChanges
\* once.
C7_ReattachNoRenderNoInstall ==
  [][(last' = "connect" /\ initialized) =>
       /\ StepNames(trace') = <<"onConnected", "onChanges">>
       /\ childCount' = childCount
       /\ installed' = installed]_vars

\* a second attachment of a rendered element
C7_Witness ==
  /\ last = "connect"
  /\ StepNames(trace) = <<"onConnected", "onChanges">>
  /\ childCount = 1

\* C8: over attach, detach and re-attach the template is rendered at most
\* once, the accessors are installed at most once, and the value store is
\* kept: after a detach or a re-attach each property reads what it read
\* before, or what a hook of that callback assigned to it.
C8_RenderInstallOnceStoreKept ==
  /\ [](childCount <= 1)
  /\ [][(rendered => rendered') /\ (initialized => initialized')]_vars
  /\ [][(Has(trace', "render") => ~rendered)
        /\ (Has(trace', "applyInputs") => ~initialized)
        /\ (Has(trace', "applyAccessors") => ~initialized)]_vars
  /\ [][(initialized /\ last' \in {"connect", "disconnect"}) =>
         \A p \in installed :
           Get(Cur', p) = IF HookWrote(trace', p) = {}
                          THEN Get(Cur, p)
                          ELSE trace'[LastOf(HookWrote(trace', p))].value]_vars

\* a re-attached element whose property still reads a value written before
C8_Witness ==
  /\ last = "connect"
  /\ ~Has(trace, "applyInputs")
  /\ \A i \in 1..Len(trace) : trace[i].ev # "set"
  /\ props # << >>
  /\ \E p \in installed : Get(Cur, p) # field[p]

\* C9: installation seeds the batch, for each declared property, with
\* oldValue = the field value before installation and newValue = the
\* resolved initial value, which is also the value seeded into the store
\* (the field value when there is no backing attribute); for the string
\* property size with default "med" and attribute "lg" the first batch is
\* exactly { size: { oldValue: "med", newValue: "lg" } }.
C9_InstallSeedsBatch ==
  [][(~initialized /\ last' = "connect") =>
       LET e == EventOf(trace', "applyInputs") IN
       /\ \A p \in Declared(metadata) :
            /\ MapHas(e.batch, p)
            /\ MapHas(e.store, p)
            /\ MapGet(e.batch, p).oldValue = field[p]
            /\ MapGet(e.batch, p).newValue = MapGet(e.store, p)
            /\ (p \notin AttributeBacked(metadata) \/ attrs[p] = Null) =>
                 MapGet(e.store, p) = field[p]
       /\ MapKeys(e.batch) = Declared(metadata)
       /\ (/\ metadata.inputs = <<Decl("size", TRUE, STRING_T)>>
           /\ field["size"] = Str(MEDIUM)
           /\ attrs["size"] = Str(LARGE)
           /\ SetsBeforeOnChanges(trace') = {}) =>
            Delivered(trace') =
              <<[key |-> "size",
                 val |-> [oldValue |-> Str(MEDIUM), newValue |-> Str(LARGE)]]>>]_vars

\* the first attachment of the element with size="lg" delivered that batch
C9_Witness ==
  /\ last = "connect"
  /\ Has(trace, "applyInputs")
  /\ Delivered(trace) =
       <<[key |-> "size",
          val |-> [oldValue |-> Str(MEDIUM), newValue |-> Str(LARGE)]]>>

\* C10: a metadata object never holds two input declarations with the same
\* property name: the second registration throws.
C10_NoDuplicateInput ==
  \A r \in 1..Len(heap) :
    \A i, j \in 1..Len(heap[r].inputs) :
      i # j => heap[r].inputs[i].property # heap[r].inputs[j].property

\* the class whose metadata object binds property p to a selector
HasBinding(c, p) ==
  /\ MetaKey(meta, c) # NoMeta
  /\ MapHas(heap[MetaKey(meta, c)].accessors, p)

\* C11: a query registration for a property that already has a binding on
\* that class throws and changes no metadata; a binding, once made, keeps
\* its selector.
C11_DuplicateQueryThrows ==
  /\ [][\A c \in RegClasses, p \in QueryProps, sel \in Selectors :
          (HasBinding(c, p) /\ query(c, p, sel)) =>
            (thrown' /\ heap' = heap /\ meta' = meta)]_vars
  /\ [][\A r \in 1..Len(heap), p \in QueryProps :
          MapHas(heap[r].accessors, p) =>
            /\ MapHas(heap'[r].accessors, p)
            /\ MapGet(heap'[r].accessors, p) = MapGet(heap[r].accessors, p)]_vars

\* a second query registration for a bound property has just thrown
C11_Witness ==
  /\ thrown
  /\ meta["Base"] # NoMeta
  /\ heap[meta["Base"]].inputs = << >>
  /\ heap[meta["Base"]].name = ""
  /\ HasBinding("Base", "spanEl")

\* the last handler was the first attachment
FirstAttach == last = "connect" /\ Has(trace, "applyInputs")

\* the attributes before the first attachment and the state installation left
AttrsBefore == EventOf(trace, "render").attrs

Installed == EventOf(trace, "applyInputs")

HasDecl(p, a, t) == \E i \in 1..Len(metadata.inputs) : metadata.inputs[i] = Decl(p, a, t)

\* C12: a number input whose backing attribute is present but not numeric
\* resolves to the class default: store and batch newValue hold the field
\* value, not the attribute string.
C12_NonNumericFallsBack ==
  (/\ FirstAttach
   /\ HasDecl("count", TRUE, NUMBER_T)
   /\ AttrsBefore["count"] # Null
   /\ isNaN(parseFloat(AttrsBefore["count"][2]))) =>
    /\ MapGet(Installed.store, "count") = field["count"]
    /\ MapGet(Installed.batch, "count").newValue = field["count"]

\* C13: a number input whose backing attribute is "42" before the first
\* attachment resolves to the number 42, and the attribute is still "42"
\* after installation.
C13_NumericRoundTrip ==
  (/\ FirstAttach
   /\ HasDecl("count", TRUE, NUMBER_T)
   /\ AttrsBefore["count"] = Str(S42)) =>
    /\ MapGet(Installed.store, "count") = Num(42)
    /\ MapGet(Installed.batch, "count").newValue = Num(42)
    /\ Installed.attrs["count"] = Str(S42)
    /\ Str(toString(MapGet(Installed.store, "count"))) = Installed.attrs["count"]

\* the element created with count="42" has been attached
C13_Witness ==
  /\ FirstAttach
  /\ AttrsBefore["count"] = Str(S42)
  /\ MapGet(props, "count") = Num(42)
  /\ attrs["count"] = Str(S42)

\* C14: a boolean input resolves to true when its backing attribute is the
\* empty string; with no attribute and the field default false it resolves
\* to false and installation writes no attribute.
C14_BooleanBoundary ==
  (FirstAttach /\ HasDecl("open", TRUE, BOOLEAN_T)) =>
    /\ AttrsBefore["open"] = Str(EMPTY) =>
         MapGet(Installed.store, "open") = Bool(TRUE)
    /\ (AttrsBefore["open"] = Null /\ field["open"] = Bool(FALSE)) =>
         /\ MapGet(Installed.store, "open") = Bool(FALSE)
         /\ Installed.attrs["open"] = Null

\* C15: every entry of a delivered batch has as oldValue the value the
\* property had when the batching window opened, however many setter
\* writes the window held.
C15_OldValueIsPreWindow ==
  (last = "fire" /\ winProps # {} /\ WindowFromIdle) =>
    \A i \in 1..Len(Delivered(trace)) :
      Delivered(trace)[i].val.oldValue = winPre[Delivered(trace)[i].key]

\* the attribute that mirrors value v: absent for a falsy value
Mirror(v) == IF Truthy(v) THEN Str(toString(v)) ELSE Null

\* C16: a setter call on an attribute-backed property leaves its backing
\* attribute absent when the value is falsy and equal to the string form of
\* the value otherwise, and changes no other attribute; a setter call on a
\* property that is not attribute-backed changes no attribute.
C16_SetterMirrorsAttribute ==
  [][\A w \in Writes :
       Set(w.prop, w.value) =>
         /\ w.prop \in AttributeBacked(metadata) => attrs'[w.prop] = Mirror(w.value)
         /\ \A q \in Props :
              (q # w.prop \/ w.prop \notin AttributeBacked(metadata)) =>
                attrs'[q] = attrs[q]]_vars

\* a falsy value written to an attribute-backed property removed its attribute
C16_Witness ==
  /\ last = "set"
  /\ \E p \in winProps \cap AttributeBacked(metadata) :
       /\ ~Truthy(winFinal[p])
       /\ Truthy(winPre[p])
       /\ attrs[p] = Null

\* C17: detachment calls the onDisconnected hook only; apart from what that
\* hook assigns it leaves the batch, the value store and the handle as they
\* were, it cancels no pending flush, and the flush that fires on the
\* detached element delivers the pending batch to onChanges.
C17_DetachKeepsPendingFlush ==
  /\ [][last' = "disconnect" =>
          /\ StepNames(trace') = <<"onDisconnected">>
          /\ timers \subseteq timers'
          /\ (updateTimer # NoTimer => updateTimer' = updateTimer)
          /\ (\A i \in 1..Len(trace') : trace'[i].ev # "set") =>
               /\ changes' = changes
               /\ props' = props
               /\ updateTimer' = updateTimer
               /\ timers' = timers]_vars
  /\ [][(~attached /\ last' = "fire") =>
          /\ ~attached'
          /\ Cardinality(OnChangesCalls(trace')) = 1
          /\ Delivered(trace') = changes]_vars

\* the flush scheduled before a detachment fired on the detached element
C17_Witness ==
  /\ last = "fire"
  /\ ~attached
  /\ winAfter = "disconnect"
  /\ winProps = {}
  /\ MapHas(Delivered(trace), "count")

\* C18: no reactive write is lost: a property whose value a setter call
\* changed, from a caller or from inside a hook, is delivered by the flush
\* of that handler or stays in the pending batch with a flush scheduled.
C18_NoWriteLost ==
  /\ last = "set" =>
       \A p \in winProps :
         winFinal[p] # winPre[p] => (MapHas(changes, p) /\ timers # {})
  /\ last \in {"fire", "connect", "disconnect"} =>
       \A i \in 1..Len(trace) :
         (/\ trace[i].ev = "set"
          /\ MapHas(trace[i].store, trace[i].prop)
          /\ trace[i].value # MapGet(trace[i].store, trace[i].prop)) =>
           \/ MapHas(changes, trace[i].prop) /\ timers # {}
           \/ \E j \in OnChangesCalls(trace) :
                i < j /\ MapHas(trace[j].batch, trace[i].prop)

\* C19: between setter calls every entry of the pending batch has as
\* newValue the value the store holds for its property, in the state after
\* each handler and at every hook call inside it.
C19_NewValueIsStoreValue ==
  /\ \A i \in 1..Len(changes) :
       /\ MapHas(props, changes[i].key)
       /\ changes[i].val.newValue = MapGet(props, changes[i].key)
  /\ \A k \in 1..Len(trace) :
       \A i \in 1..Len(trace[k].batch) :
         /\ MapHas(trace[k].store, trace[k].batch[i].key)
         /\ trace[k].batch[i].val.newValue =
              MapGet(trace[k].store, trace[k].batch[i].key)

\* a pending entry of a changed property after two setter calls
C19_Witness ==
  /\ last = "set"
  /\ Cardinality(winProps) >= 2
  /\ \E i \in 1..Len(changes) :
       /\ changes[i].val.oldValue # changes[i].val.newValue
       /\ changes[i].val.newValue = MapGet(props, changes[i].key)

\* the metadata record class d reads, NoMeta before d is registered
RecordOf(m, h, d) == IF m[d] = NoMeta THEN NoMeta ELSE h[m[d]]

\* a registration on class c leaves the record of every other registered class
KeepsOthers(c) ==
  \A d \in RegClasses \ {c} :
    meta[d] # NoMeta =>
      (meta'[d] = meta[d] /\ RecordOf(meta', heap', d) = RecordOf(meta, heap, d))

\* C20: metadata is per class: an input, query or element registration on
\* one class leaves the metadata record (name, template, inputs, accessors)
\* of every other registered class unchanged, also when the class extends it.
C20_MetadataPerClass ==
  /\ [][\A c \in RegClasses, p \in RegProps, k \in DeclKinds :
          input(c, p, k[1], k[2]) => KeepsOthers(c)]_vars
  /\ [][\A c \in RegClasses, p \in QueryProps, sel \in Selectors :
          query(c, p, sel) => KeepsOthers(c)]_vars
  /\ [][\A c \in RegClasses, n \in ElementNames, t \in Templates :
          element(c, n, t) => KeepsOthers(c)]_vars

====
